---- MODULE Spec2Model ----
(***************************************************************************)
(* Model of the AutoSleep ETL pipeline (src/dags/etl_airflow.py, with the  *)
(* stand-alone script src/main.py): the transformation of a tracker export *)
(* (extract_data, remove_empty_spo2, convert_date, finalise_data), the     *)
(* SQLite load (load_to_sqlite) and the Airflow task chain.                *)
(*                                                                         *)
(* Text is modelled as a sequence of one-character strings, so that the    *)
(* code's slicing and replacing act on characters as they do in Python.    *)
(* A missing cell (pandas NaN) is the one-element sequence NaN.            *)
(***************************************************************************)
EXTENDS Integers, Sequences, FiniteSets, TLC

\* ------------------------------------------------------------------ bounds
\* Rows in a file handled by the pipeline.
MaxRows == 2
\* DAG runs the scheduler starts.
MaxRuns == 3
\* Rows in a file handed to the transformation alone.
MaxXRows == 2

\* default_args['retries']
retries == 3

\* ------------------------------------------------------------- characters
NaN == <<"NaN">>

DigitChars == <<"0","1","2","3","4","5","6","7","8","9">>

IsDigit(c) == \E i \in 1..10 : DigitChars[i] = c

DigitVal(c) == (CHOOSE i \in 1..10 : DigitChars[i] = c) - 1

RECURSIVE ToInt(_)
ToInt(s) == IF s = <<>> THEN 0
            ELSE 10 * ToInt(SubSeq(s, 1, Len(s) - 1)) + DigitVal(s[Len(s)])

AllDigits(s) == \A i \in 1..Len(s) : IsDigit(s[i])

\* "%02d" and "%04d"
Pad2(n) == <<DigitChars[((n \div 10) % 10) + 1], DigitChars[(n % 10) + 1]>>

Pad4(n) == <<DigitChars[((n \div 1000) % 10) + 1], DigitChars[((n \div 100) % 10) + 1]>> \o Pad2(n % 100)

\* --------------------------------------------------------- string methods
\* re.sub(pat, repl, s) for a literal pattern: every non-overlapping match,
\* left to right.
RECURSIVE re_sub(_, _, _)
re_sub(pat, repl, s) ==
    IF Len(s) < Len(pat) THEN s
    ELSE IF SubSeq(s, 1, Len(pat)) = pat
         THEN repl \o re_sub(pat, repl, SubSeq(s, Len(pat) + 1, Len(s)))
         ELSE <<Head(s)>> \o re_sub(pat, repl, Tail(s))

\* str.replace(old, new, 1): the first match only.
RECURSIVE replace_first(_, _, _)
replace_first(pat, repl, s) ==
    IF Len(s) < Len(pat) THEN s
    ELSE IF SubSeq(s, 1, Len(pat)) = pat
         THEN repl \o SubSeq(s, Len(pat) + 1, Len(s))
         ELSE <<Head(s)>> \o replace_first(pat, repl, Tail(s))

\* s[-n:]
slice_last(s, n) == IF Len(s) <= n THEN s ELSE SubSeq(s, Len(s) - n + 1, Len(s))

\* s[a:b] for 0 <= a <= b
slice_range(s, a, b) ==
    IF a >= Len(s) THEN <<>>
    ELSE SubSeq(s, a + 1, IF b < Len(s) THEN b ELSE Len(s))

\* ------------------------------------------------------------- the dates
\* The dict `dates` of convert_date, in its order.
dates == <<
    << <<"J","a","n">>, <<"0","1">> >>,
    << <<"F","e","b">>, <<"0","2">> >>,
    << <<"M","a","r">>, <<"0","3">> >>,
    << <<"A","p","r">>, <<"0","4">> >>,
    << <<"M","a","y">>, <<"0","5">> >>,
    << <<"J","u","n">>, <<"0","6">> >>,
    << <<"J","u","l">>, <<"0","7">> >>,
    << <<"A","u","g">>, <<"0","8">> >>,
    << <<"S","e","p">>, <<"0","9">> >>,
    << <<"O","c","t">>, <<"1","0">> >>,
    << <<"N","o","v">>, <<"1","1">> >>,
    << <<"D","e","c">>, <<"1","2">> >> >>

\* Series.replace(dates, regex=True): each key in turn, substituted everywhere.
RECURSIVE replace_dates(_, _)
replace_dates(s, i) ==
    IF i > Len(dates) THEN s
    ELSE replace_dates(re_sub(dates[i][1], dates[i][2], s), i + 1)

\* ---------------------------------------------------------------- calendar
IsLeap(y) == y % 4 = 0 /\ (y % 100 # 0 \/ y % 400 = 0)

DaysIn(y, m) == IF m = 2 THEN (IF IsLeap(y) THEN 29 ELSE 28)
                ELSE IF m \in {4, 6, 9, 11} THEN 30 ELSE 31

ValidDate(y, m, d) == m \in 1..12 /\ d >= 1 /\ d <= DaysIn(y, m) /\ y >= 1

\* Split on the separators a date text of the pipeline can hold.
RECURSIVE Tokens(_, _)
Tokens(s, cur) ==
    IF s = <<>> THEN <<cur>>
    ELSE IF Head(s) \in {" ", "-"} THEN <<cur>> \o Tokens(Tail(s), <<>>)
         ELSE Tokens(Tail(s), Append(cur, Head(s)))

NaT == [kind |-> "NaT", y |-> 0, m |-> 0, d |-> 0]

ParseFailure == [kind |-> "error", y |-> 0, m |-> 0, d |-> 0]

\* pd.to_datetime(cell, dayfirst=True) on the texts convert_date hands it: a
\* missing cell is NaT; "<d> <m> <yyyy>" (or with dashes) in digits is that
\* day of that month; anything else raises.
to_datetime(cell) ==
    IF cell = NaN THEN NaT
    ELSE LET t == Tokens(cell, <<>>) IN
         IF /\ Len(t) = 3
            /\ \A i \in 1..3 : t[i] # <<>> /\ AllDigits(t[i])
            /\ Len(t[1]) <= 2 /\ Len(t[2]) <= 2 /\ Len(t[3]) = 4
            /\ ValidDate(ToInt(t[3]), ToInt(t[2]), ToInt(t[1]))
         THEN [kind |-> "date", y |-> ToInt(t[3]), m |-> ToInt(t[2]), d |-> ToInt(t[1])]
         ELSE ParseFailure

\* .dt.strftime("%Y<sep>%m<sep>%d"); NaT gives a missing cell.
strftime(dt, sep) ==
    IF dt.kind = "NaT" THEN NaN
    ELSE Pad4(dt.y) \o <<sep>> \o Pad2(dt.m) \o <<sep>> \o Pad2(dt.d)

\* Series.replace and the .str methods leave a missing cell missing.
DropFirstSpace(s) == IF s = NaN THEN NaN ELSE replace_first(<<" ">>, <<>>, s)

DropCommas(s) == IF s = NaN THEN NaN ELSE re_sub(<<",">>, <<>>, s)

SpacesToDashes(s) == IF s = NaN THEN NaN ELSE re_sub(<<" ">>, <<"-">>, s)

ReplaceMonths(s) == IF s = NaN THEN NaN ELSE replace_dates(s, 1)

\* A slice one character short: .str.slice(-10)
slice_date_short(s) == IF s = NaN THEN NaN ELSE slice_last(s, 10)

\* the date part of the month-substituted text: .str.slice(-11)
slice_date(s) == IF s = NaN THEN NaN ELSE slice_last(s, 11)

\* convert_date of etl_airflow.py on one cell, up to the text given to to_datetime
date_text(cell) == DropFirstSpace(DropCommas(slice_date(ReplaceMonths(cell))))

\* convert_date of etl_airflow.py on one cell: the text, or ParseError
convert_date_cell(cell) ==
    LET dt == to_datetime(date_text(cell))
    IN  IF dt.kind = "error" THEN [ok |-> FALSE, val |-> NaN]
        ELSE [ok |-> TRUE, val |-> strftime(dt, "-")]

\* convert_date of main.py on one cell
convert_date_cell_main(cell) ==
    LET dt == to_datetime(SpacesToDashes(date_text(cell)))
    IN  IF dt.kind = "error" THEN [ok |-> FALSE, val |-> NaN]
        ELSE [ok |-> TRUE, val |-> strftime(dt, "/")]

\* ------------------------------------------------------- the input grammar
\* Date texts "<weekday>, <day> <MonthName> <year><trailing>".
Weekdays == {<<"W","e","d">>, <<"S","u","n","d","a","y">>}

DayTexts == {<<"4">>, <<"1","4">>, <<"2","9">>, <<"3","1">>}

Xyz == <<"X","y","z">>

MonthNames == {dates[i][1] : i \in 1..Len(dates)}

MonthTexts == MonthNames \cup {Xyz}

Years == {2023, 2024}

NoTrail == <<>>

TimeTrail == <<" ","0","7",":","1","5",":","0","0">>

Trails == {NoTrail, TimeTrail}

MkDate(p) == p.wd \o <<",", " ">> \o p.day \o <<" ">> \o p.mon \o <<" ">> \o Pad4(p.year) \o p.trail

DateParts == [wd : Weekdays, day : DayTexts, mon : MonthTexts, year : Years, trail : Trails]

\* The calendar day a date text names, when it names one.
MonthNumber(mon) == CHOOSE i \in 1..Len(dates) : dates[i][1] = mon

NamesADay(p) == p.mon \in MonthNames /\ ValidDate(p.year, MonthNumber(p.mon), ToInt(p.day))

Canonical(p, sep) == Pad4(p.year) \o <<sep>> \o Pad2(MonthNumber(p.mon)) \o <<sep>> \o Pad2(ToInt(p.day))

\* -------------------------------------------------------------- the files
\* A CSV file: a header and rows of text cells, an empty field being <<>>.
NoFile == [exists |-> FALSE, header |-> <<>>, rows |-> <<>>]

\* usecols of extract_data
usecols == <<"toDate", "waketime", "asleep", "efficiency", "quality", "deep", "SpO2Avg">>

\* the names assigned to transformed.columns
renamed == <<"date", "wakeup_time", "hours_slept", "sleep_efficiency", "quality_sleep_time",
             "deep_sleep_time", "oxygen_saturation_average">>

\* the column layout selected last, which is the table's layout too
layout == <<"date", "wakeup_time", "hours_slept", "quality_sleep_time",
            "deep_sleep_time", "sleep_efficiency", "oxygen_saturation_average">>

Range(q) == {q[i] : i \in 1..Len(q)}

ColIndex(columns, name) == CHOOSE i \in 1..Len(columns) : columns[i] = name

\* The positions of the header, in file order, whose name is in `names`.
RECURSIVE Keep(_, _, _)
Keep(header, names, i) ==
    IF i > Len(header) THEN <<>>
    ELSE (IF header[i] \in names THEN <<i>> ELSE <<>>) \o Keep(header, names, i + 1)

\* A data frame: column names, rows of cells (NaN for a missing one), and the
\* columns pandas holds as numbers (float64) rather than as objects.
Frame(ok, err, columns, rows, floats) ==
    [ok |-> ok, err |-> err, columns |-> columns, rows |-> rows, floats |-> floats]

Raised(err) == Frame(FALSE, err, <<>>, <<>>, {})

\* read_csv turns an empty field into NaN.
ReadCell(text) == IF text = <<>> THEN NaN ELSE text

\* to_csv writes NaN as an empty field.
WriteCell(cell) == IF cell = NaN THEN <<>> ELSE cell

\* pd.read_csv(path, usecols=names): the named columns in the FILE's order;
\* a missing file or a missing column raises. A column of a non-empty file whose
\* every field is empty is read as float64.
read_csv(file, names) ==
    IF ~file.exists THEN Raised("FileNotFoundError")
    ELSE IF ~(names \subseteq Range(file.header)) THEN Raised("ValueError")
    ELSE LET keep == Keep(file.header, names, 1)
             cols == [k \in 1..Len(keep) |-> file.header[keep[k]]]
             rows == [r \in 1..Len(file.rows) |->
                         [k \in 1..Len(keep) |-> ReadCell(file.rows[r][keep[k]])]]
         IN  Frame(TRUE, "", cols, rows,
                   {cols[k] : k \in {j \in 1..Len(keep) :
                        Len(rows) > 0 /\ \A r \in 1..Len(rows) : rows[r][j] = NaN}})

\* DataFrame.to_csv(path, index=False)
to_csv(df) ==
    [exists |-> TRUE, header |-> df.columns,
     rows |-> [r \in 1..Len(df.rows) |->
                  [k \in 1..Len(df.columns) |-> WriteCell(df.rows[r][k])]]]

\* extract_data
extract_data(file) == read_csv(file, Range(usecols))

RECURSIVE FilterRows(_, _)
FilterRows(rows, k) ==
    IF rows = <<>> THEN <<>>
    ELSE (IF Head(rows)[k] # NaN THEN <<Head(rows)>> ELSE <<>>) \o FilterRows(Tail(rows), k)

\* remove_empty_spo2: data[data['SpO2Avg'].notna()]
remove_empty_spo2(df) ==
    [df EXCEPT !.rows = FilterRows(df.rows, ColIndex(df.columns, "SpO2Avg"))]

\* convert_date_cell over the cells a toDate column of the model can hold,
\* computed once
convert_date_table == [c \in {NaN} \cup {MkDate(p) : p \in DateParts} |-> convert_date_cell(c)]

\* to_datetime(..., errors='coerce'): a cell that fails becomes missing.
convert_date_coerce(df) ==
    LET k == ColIndex(df.columns, "toDate")
    IN  IF "toDate" \in df.floats THEN Raised("AttributeError")
        ELSE [df EXCEPT !.rows = [r \in 1..Len(df.rows) |->
                 [df.rows[r] EXCEPT ![k] = convert_date_table[df.rows[r][k]].val]]]

\* convert_date of etl_airflow.py on the frame: the .str accessor raises on a
\* float64 column, to_datetime raises for the whole column if one cell fails.
convert_date(df) ==
    LET k == ColIndex(df.columns, "toDate")
        conv == [r \in 1..Len(df.rows) |-> convert_date_table[df.rows[r][k]]]
    IN  IF "toDate" \in df.floats THEN Raised("AttributeError")
        ELSE IF \E r \in 1..Len(df.rows) : ~conv[r].ok THEN Raised("ParserError")
        ELSE [df EXCEPT !.rows = [r \in 1..Len(df.rows) |->
                                     [df.rows[r] EXCEPT ![k] = conv[r].val]]]

wake_slice(s) == IF s = NaN THEN NaN ELSE slice_range(s, 11, 19)

\* transformed['waketime'].str.slice(11, 19)
slice_waketime(df) ==
    LET k == ColIndex(df.columns, "waketime")
    IN  IF "waketime" \in df.floats THEN Raised("AttributeError")
        ELSE [df EXCEPT !.rows = [r \in 1..Len(df.rows) |->
                 [df.rows[r] EXCEPT ![k] = wake_slice(df.rows[r][k])]]]

\* transformed.columns = [...]: the names are assigned by POSITION.
set_columns(df, names) ==
    IF Len(names) # Len(df.columns) THEN Raised("ValueError")
    ELSE [df EXCEPT !.columns = names,
                    !.floats = {names[ColIndex(df.columns, c)] : c \in df.floats}]

\* transformed[[...]]: the columns selected by NAME, in the order given.
select_columns(df, names) ==
    [df EXCEPT !.columns = names,
               !.rows = [r \in 1..Len(df.rows) |->
                            [k \in 1..Len(names) |-> df.rows[r][ColIndex(df.columns, names[k])]]]]

\* finalise_data
finalise_data(df) ==
    LET a == convert_date(remove_empty_spo2(df))
        b == IF a.ok THEN slice_waketime(a) ELSE a
        c == IF b.ok THEN set_columns(b, renamed) ELSE b
    IN  IF c.ok THEN select_columns(c, layout) ELSE c

\* extract_data followed by finalise_data, as extract_and_transform calls them
transform(file) ==
    LET e == extract_data(file) IN IF e.ok THEN finalise_data(e) ELSE e

\* Raw records: one row of the export, by column name, <<>> an empty field.
\* The values are ones whose text read_csv and to_csv leave as it is (clock
\* texts stay strings, 93.1 and 95.5 are written back as 93.1 and 95.5).
Raw(toDate, deep, spo2) ==
    [toDate |-> toDate,
     waketime |-> <<"2","0","2","3","-","0","2","-","1","4"," ","0","7",":","1","5",":","0","0">>,
     asleep |-> <<"7",":","3","0">>,
     efficiency |-> <<"9","3",".","1">>,
     quality |-> <<"5",":","1","0">>,
     deep |-> deep,
     SpO2Avg |-> spo2]

Deep == <<"2",":","0","0">>

Spo2 == <<"9","5",".","5">>

Wed14Feb == MkDate([wd |-> <<"W","e","d">>, day |-> <<"1","4">>, mon |-> <<"F","e","b">>, year |-> 2023, trail |-> NoTrail])

Sun4Mar == MkDate([wd |-> <<"S","u","n","d","a","y">>, day |-> <<"4">>, mon |-> <<"M","a","r">>, year |-> 2023, trail |-> NoTrail])

Wed14Xyz == MkDate([wd |-> <<"W","e","d">>, day |-> <<"1","4">>, mon |-> Xyz, year |-> 2023, trail |-> NoTrail])

\* The texts of the grammar that name a calendar day and end with the year.
GoodDateTexts == {MkDate(p) : p \in {q \in DateParts : NamesADay(q) /\ q.trail = NoTrail}}

Malformed(text) == text # <<>> /\ text \notin GoodDateTexts

\* The file holding the raw records under a header; a column that is not one
\* of the seven holds a filler.
MkFile(header, raws) ==
    [exists |-> TRUE, header |-> header,
     rows |-> [r \in 1..Len(raws) |->
                  [k \in 1..Len(header) |->
                      IF header[k] \in Range(usecols) THEN raws[r][header[k]] ELSE <<"x">>]]]

SeqsUpTo(S, n) == UNION {[1..k -> S] : k \in 0..n}

\* Headers: the export's order, the same with extra columns, and two orders
\* that differ from the export's.
Headers == {usecols,
            <<"fromDate", "toDate", "waketime", "inBed", "asleep", "efficiency", "quality", "deep", "SpO2Avg", "tags">>,
            <<"toDate", "waketime", "asleep", "quality", "efficiency", "deep", "SpO2Avg">>,
            <<"toDate", "waketime", "asleep", "efficiency", "quality", "SpO2Avg", "deep">>}

\* The raw records handed to the transformation alone: two dates, a month
\* that is no abbreviation, an empty date; deep and SpO2Avg given or empty.
XRaws == {Raw(d, p, o) : d \in {Wed14Feb, Sun4Mar, Wed14Xyz, <<>>}, p \in {Deep, <<>>}, o \in {Spo2, <<>>}}

\* The raw records of the files the S3 key can hold when a run downloads it:
\* two dates, a month that is no abbreviation, and a row without SpO2Avg.
PipeRaws == {Raw(Wed14Feb, Deep, Spo2), Raw(Sun4Mar, Deep, Spo2), Raw(Wed14Xyz, Deep, Spo2),
             Raw(Wed14Xyz, Deep, <<>>)}

PipeInputs == SeqsUpTo(PipeRaws, MaxRows)

\* RawRecords that survive remove_empty_spo2, in order
RECURSIVE Survivors(_)
Survivors(raws) ==
    IF raws = <<>> THEN <<>>
    ELSE (IF Head(raws).SpO2Avg # <<>> THEN <<Head(raws)>> ELSE <<>>) \o Survivors(Tail(raws))

\* ---------------------------------------------------------------- database
\* A table without the key: nothing collides.
no_violation(table, row) == FALSE

\* A table is the sequence of its rows, each a record by column name; a NULL
\* is NaN. `date DATE PRIMARY KEY` of a table that is not WITHOUT ROWID: no two
\* rows with the same non-NULL date; SQLite lets NULLs in.
unique_violation(table, row) ==
    row["date"] # NaN /\ \E i \in 1..Len(table) : table[i]["date"] = row["date"]

\* cursor.executemany(INSERT ...): row after row until one violates the key.
RECURSIVE executemany(_, _)
executemany(table, rows) ==
    IF rows = <<>> THEN [ok |-> TRUE, rows |-> table]
    ELSE IF unique_violation(table, Head(rows)) THEN [ok |-> FALSE, rows |-> table]
         ELSE executemany(Append(table, Head(rows)), Tail(rows))

\* Rows committed one by one: what was inserted before the failure stays.
run_without_rollback(table, rows) == executemany(table, rows)

\* pandas' run_transaction: commit, or roll back and raise again.
run_transaction(table, rows) ==
    LET r == executemany(table, rows)
    IN  IF r.ok THEN r ELSE [ok |-> FALSE, rows |-> table]

\* The frame's rows as table rows: INSERT INTO t (<columns>) VALUES (...)
SqlRows(df) ==
    [r \in 1..Len(df.rows) |->
        [c \in Range(df.columns) |-> df.rows[r][ColIndex(df.columns, c)]]]

\* DataFrame.to_sql(name, connection, if_exists='append', index=False)
to_sql(table, df) ==
    IF Range(df.columns) # Range(layout) THEN [ok |-> FALSE, err |-> "OperationalError", rows |-> table]
    ELSE LET r == run_transaction(table, SqlRows(df))
         IN  [ok |-> r.ok, err |-> IF r.ok THEN "" ELSE "IntegrityError", rows |-> r.rows]

\* ------------------------------------------------------------- the DAG
\* s3_sensor >> download_data_from_s3 >> extract_and_transform >> load_to_sqlite >> remove_temp_files
chain == <<"s3_sensor", "download_data_from_s3", "extract_and_transform", "load_to_sqlite", "remove_temp_files">>

Tasks == Range(chain)

\* load_to_sqlite chained to the download instead of to the transformation.
upstream_of_download(t) ==
    IF ColIndex(chain, t) = 1 THEN ""
    ELSE IF t = "load_to_sqlite" THEN "download_data_from_s3"
    ELSE chain[ColIndex(chain, t) - 1]

\* The task a task waits for ("" for the first).
upstream(t) == IF ColIndex(chain, t) = 1 THEN "" ELSE chain[ColIndex(chain, t) - 1]

NextMonth(t) == IF t.month = 12 THEN [year |-> t.year + 1, month |-> 1]
                ELSE [year |-> t.year, month |-> t.month + 1]

\* ------------------------------------------------------------------ state
VARIABLES
    now,                \* the wall clock's year and month
    runs,               \* DAG runs started
    st, tries,          \* the current run's task states and failed tries
    data_csv,           \* AutoSleep Data/data.csv
    transformed_csv,    \* AutoSleep Data/transformed_data.csv
    db,                 \* the tables, by <<year of the database, number of the table>>
    connection,         \* the handle load_to_sqlite last opened
    db0,                \* the tables when the current run started
    xform_log,          \* the last try of extract_and_transform in the run
    load_log,           \* the last try of load_to_sqlite in the run
    dparts, variant, dout,          \* the Date Normalizer alone: input, script, result
    xraw, xheader, xout             \* the Row Transformer alone: raw records, header, result

pvars == <<now, runs, st, tries, data_csv, transformed_csv, db, connection, db0, xform_log, load_log>>

dvars == <<dparts, variant, dout>>

xvars == <<xraw, xheader, xout>>

vars == <<now, runs, st, tries, data_csv, transformed_csv, db, connection, db0, xform_log, load_log,
          dparts, variant, dout, xraw, xheader, xout>>

\* ------------------------------------------------ the Date Normalizer alone
NotRun == [done |-> FALSE, ok |-> FALSE, val |-> NaN]

DIdle == /\ dparts = [wd |-> <<"W","e","d">>, day |-> <<"4">>, mon |-> Xyz, year |-> 2023, trail |-> NoTrail]
         /\ variant = "dag"
         /\ dout = NotRun

DInit == /\ dparts \in DateParts
         /\ variant \in {"dag", "main"}
         /\ dout = NotRun

\* convert_date applied to the one-cell column holding the text
ConvertDate ==
    /\ ~dout.done
    /\ LET r == IF variant = "dag" THEN convert_date_cell(MkDate(dparts))
                ELSE convert_date_cell_main(MkDate(dparts))
       IN  dout' = [done |-> TRUE, ok |-> r.ok, val |-> r.val]
    /\ UNCHANGED <<dparts, variant>>

\* ------------------------------------------------ the Row Transformer alone
NoFrame == [done |-> FALSE, df |-> Raised("")]

XIdle == xraw = <<>> /\ xheader = usecols /\ xout = NoFrame

XInit == /\ xraw \in SeqsUpTo(XRaws, MaxXRows)
         /\ xheader \in Headers
         /\ xout = NoFrame

\* extract_data and finalise_data on the file
Transform ==
    /\ ~xout.done
    /\ xout' = [done |-> TRUE, df |-> transform(MkFile(xheader, xraw))]
    /\ UNCHANGED <<xraw, xheader>>

\* ------------------------------------------------------------ the pipeline
NoXform == [done |-> FALSE, ok |-> FALSE, err |-> ""]

NoLoad == [done |-> FALSE, at |-> [year |-> 0, month |-> 0], target |-> <<0, 0>>,
           ok |-> FALSE, err |-> "", rows |-> 0, stored |-> FALSE, inbatch |-> FALSE]

\* The rows of a table, none when it does not exist.
TableOf(d, id) == IF id \in DOMAIN d THEN d[id] ELSE <<>>

\* The dates of the records a CSV of transformed data holds, NaN for an empty one.
CsvDates(file) ==
    IF ~file.exists \/ "date" \notin Range(file.header) THEN <<>>
    ELSE [r \in 1..Len(file.rows) |-> ReadCell(file.rows[r][ColIndex(file.header, "date")])]

\* Some record of the batch has the date of a stored row.
CollidesStored(table, ds) ==
    \E i \in 1..Len(ds) : ds[i] # NaN /\ \E j \in 1..Len(table) : table[j]["date"] = ds[i]

\* Two records of the batch have the same date.
CollidesInBatch(ds) ==
    \E i, j \in 1..Len(ds) : i < j /\ ds[i] # NaN /\ ds[i] = ds[j]

PIdle == /\ now = [year |-> 2023, month |-> 12]
         /\ runs = 1
         /\ st = [t \in Tasks |-> "none"]
         /\ tries = [t \in Tasks |-> 0]
         /\ data_csv = NoFile
         /\ transformed_csv = NoFile
         /\ db = <<>>
         /\ connection = "none"
         /\ db0 = <<>>
         /\ xform_log = NoXform
         /\ load_log = NoLoad

PInit == PIdle

\* Airflow runs a task when every upstream task has succeeded, and again
\* after a failed try while tries are left.
Runnable(t) ==
    /\ st[t] \in {"none", "up_for_retry"}
    /\ IF upstream(t) = "" THEN TRUE ELSE st[upstream(t)] = "success"

Succeed(t) == st' = [st EXCEPT ![t] = "success"] /\ UNCHANGED tries

Fail(t) == /\ tries' = [tries EXCEPT ![t] = @ + 1]
           /\ st' = [st EXCEPT ![t] = IF tries[t] + 1 > retries THEN "failed" ELSE "up_for_retry"]

\* S3KeySensor: the key is found, or the sensor times out (soft_fail=False).
S3Sensor ==
    /\ Runnable("s3_sensor")
    /\ \E found \in BOOLEAN : IF found THEN Succeed("s3_sensor") ELSE Fail("s3_sensor")
    /\ UNCHANGED <<now, runs, data_csv, transformed_csv, db, connection, db0, xform_log, load_log>>

\* download_data_from_s3: S3Hook.download_file(preserve_file_name=True) refuses
\* to overwrite a file that is there.
DownloadDataFromS3 ==
    /\ Runnable("download_data_from_s3")
    /\ IF data_csv.exists
       THEN Fail("download_data_from_s3") /\ UNCHANGED data_csv
       ELSE /\ \E raws \in PipeInputs : data_csv' = MkFile(usecols, raws)
            /\ Succeed("download_data_from_s3")
    /\ UNCHANGED <<now, runs, transformed_csv, db, connection, db0, xform_log, load_log>>

\* extract_and_transform
ExtractAndTransform ==
    /\ Runnable("extract_and_transform")
    /\ LET df == transform(data_csv)
       IN  /\ xform_log' = [done |-> TRUE, ok |-> df.ok, err |-> df.err]
           /\ IF df.ok
              THEN transformed_csv' = to_csv(df) /\ Succeed("extract_and_transform")
              ELSE UNCHANGED transformed_csv /\ Fail("extract_and_transform")
    /\ UNCHANGED <<now, runs, data_csv, db, connection, db0, load_log>>

\* The database and table load_to_sqlite names from datetime.now()
target_table(t) == <<t.year, t.month - 1>>

\* load_to_sqlite: connect, CREATE TABLE IF NOT EXISTS, read the CSV, append,
\* close. An exception leaves the function before connection.close().
LoadToSqlite ==
    /\ Runnable("load_to_sqlite")
    /\ LET id == target_table(now)
           pre == TableOf(db, id)
           df == read_csv(transformed_csv, Range(transformed_csv.header))
           res == IF df.ok THEN to_sql(pre, df) ELSE [ok |-> FALSE, err |-> df.err, rows |-> pre]
       IN  /\ db' = (id :> res.rows) @@ db
           /\ load_log' = [done |-> TRUE, at |-> now, target |-> id, ok |-> res.ok, err |-> res.err,
                           rows |-> Len(df.rows),
                           stored |-> CollidesStored(pre, CsvDates(transformed_csv)),
                           inbatch |-> CollidesInBatch(CsvDates(transformed_csv))]
           /\ IF res.ok
              THEN connection' = "closed" /\ Succeed("load_to_sqlite")
              ELSE connection' = "open" /\ Fail("load_to_sqlite")
    /\ UNCHANGED <<now, runs, data_csv, transformed_csv, db0, xform_log>>

\* remove_temp_files
RemoveTempFiles ==
    /\ Runnable("remove_temp_files")
    /\ IF data_csv.exists
       THEN /\ data_csv' = NoFile
            /\ IF transformed_csv.exists
               THEN transformed_csv' = NoFile /\ Succeed("remove_temp_files")
               ELSE UNCHANGED transformed_csv /\ Fail("remove_temp_files")
       ELSE UNCHANGED <<data_csv, transformed_csv>> /\ Succeed("remove_temp_files")
    /\ UNCHANGED <<now, runs, db, connection, db0, xform_log, load_log>>

RunEnded == st["remove_temp_files"] = "success" \/ \E t \in Tasks : st[t] = "failed"

\* The scheduler starts the next run: the next month's, or one triggered again
\* in the same month.
NextRun ==
    /\ RunEnded
    /\ runs < MaxRuns
    /\ runs' = runs + 1
    /\ now' \in {now, NextMonth(now)}
    /\ st' = [t \in Tasks |-> "none"]
    /\ tries' = [t \in Tasks |-> 0]
    /\ connection' = "none"
    /\ db0' = db
    /\ xform_log' = NoXform
    /\ load_log' = NoLoad
    /\ UNCHANGED <<data_csv, transformed_csv, db>>

\* --------------------------------------------------------- specifications
Init == PInit /\ DIdle /\ XIdle

Next ==
    \/ S3Sensor /\ UNCHANGED <<dvars, xvars>>
    \/ DownloadDataFromS3 /\ UNCHANGED <<dvars, xvars>>
    \/ ExtractAndTransform /\ UNCHANGED <<dvars, xvars>>
    \/ LoadToSqlite /\ UNCHANGED <<dvars, xvars>>
    \/ RemoveTempFiles /\ UNCHANGED <<dvars, xvars>>
    \/ NextRun /\ UNCHANGED <<dvars, xvars>>

Spec == Init /\ [][Next]_vars

DateInit == PIdle /\ DInit /\ XIdle

DateNext == ConvertDate /\ UNCHANGED <<pvars, xvars>>

SpecDate == DateInit /\ [][DateNext]_vars

TransformInit == PIdle /\ DIdle /\ XInit

TransformNext == Transform /\ UNCHANGED <<pvars, dvars>>

SpecTransform == TransformInit /\ [][TransformNext]_vars

\* ------------------------------------------------------------- properties
\* A try of task t in the current run: it ends in success or in a failed try.
TaskStep(t) == runs' = runs /\ (st'[t] # st[t] \/ tries'[t] # tries[t])

LoadTarget == target_table(now)

\* C1: loading a record whose date is already in the target table fails with
\* the duplicate-date error (sqlite3.IntegrityError) on that try, and the table
\* afterwards holds exactly the rows it held before.
C1_DuplicateDateFails ==
    [][(TaskStep("load_to_sqlite") /\ CollidesStored(TableOf(db, LoadTarget), CsvDates(transformed_csv)))
        => /\ load_log'.err = "IntegrityError"
           /\ st'["load_to_sqlite"] # "success"
           /\ TableOf(db', LoadTarget) = TableOf(db, LoadTarget)]_vars

\* A load into a table that held the date ended in the duplicate-date error.
C1_Witness ==
    /\ load_log.done /\ load_log.stored /\ load_log.err = "IntegrityError"
    /\ TableOf(db, load_log.target) # <<>>

\* The records a CSV of transformed data holds, as table rows.
CsvRecords(file) ==
    [r \in 1..Len(file.rows) |->
        [c \in Range(file.header) |-> ReadCell(file.rows[r][ColIndex(file.header, c)])]]

\* C2: after a try of the load the table holds either its prior rows followed
\* by all records of the batch, or exactly its prior rows; when a record of the
\* batch collides with a stored date or with another record of the batch, none
\* of the batch is persisted.
C2_AllOrNothing ==
    [][TaskStep("load_to_sqlite")
        => LET pre == TableOf(db, LoadTarget)
               post == TableOf(db', LoadTarget)
               batch == CsvRecords(transformed_csv)
               dates_ == CsvDates(transformed_csv)
           IN  /\ post = pre \/ post = pre \o batch
               /\ (CollidesStored(pre, dates_) \/ CollidesInBatch(dates_)) => post = pre
               /\ st'["load_to_sqlite"] = "success" => post = pre \o batch
               /\ \A id \in DOMAIN db : id # LoadTarget => db'[id] = db[id]]_vars

\* A load of two records into a table that held rows, one of them colliding,
\* failed.
C2_Witness ==
    /\ load_log.done /\ ~load_log.ok /\ load_log.rows = 2
    /\ load_log.stored /\ ~load_log.inbatch
    /\ TableOf(db, load_log.target) # <<>>

\* C3: whenever a try of the load step has ended, in success or in failure, no
\* connection that it opened is still open.
C3_ConnectionClosed ==
    st["load_to_sqlite"] # "none" => connection # "open"

\* C4: every persisted row has a date, and no two persisted rows (of the same
\* or of different months' tables) have the same date.
C4_DatePresentAndUnique ==
    /\ \A id \in DOMAIN db : \A i \in 1..Len(db[id]) : db[id][i]["date"] # NaN
    /\ \A id1, id2 \in DOMAIN db : \A i \in 1..Len(db[id1]) : \A j \in 1..Len(db[id2]) :
           (id1 # id2 \/ i # j) => db[id1][i]["date"] # db[id2][j]["date"]

\* A surviving row (one whose SpO2Avg is not empty) of the file holds a date
\* text that names no day.
SurvivingMalformed(file) ==
    /\ file.exists
    /\ \E r \in 1..Len(file.rows) :
           /\ file.rows[r][ColIndex(file.header, "SpO2Avg")] # <<>>
           /\ Malformed(file.rows[r][ColIndex(file.header, "toDate")])

Field(df, r, name) == df.rows[r][ColIndex(df.columns, name)]

Dropped(raws) == Cardinality({i \in 1..Len(raws) : raws[i].SpO2Avg = <<>>})

\* C6: the Row Transformer's output holds one record for each raw record whose
\* SpO2Avg is not empty, in source order, and none for the others, so that
\* len(output) + dropped_count = len(input); and no output record has a null
\* oxygen_saturation_average.
C6_DropsExactlyEmptySpO2 ==
    (xout.done /\ xout.df.ok) =>
        LET sv == Survivors(xraw) IN
        /\ Len(xout.df.rows) = Len(sv)
        /\ Len(xout.df.rows) + Dropped(xraw) = Len(xraw)
        /\ \A i \in 1..Len(xout.df.rows) :
               /\ Field(xout.df, i, "date") = convert_date_cell(ReadCell(sv[i].toDate)).val
               /\ Field(xout.df, i, "oxygen_saturation_average") # NaN

\* C7 as stated: for every date text "<weekday>, <day> <MonthName> <year> ..."
\* with a recognised month, with or without content after the year, the Date
\* Normalizer returns YYYY-MM-DD of that day.
C7_AsStated ==
    (dout.done /\ variant = "dag" /\ NamesADay(dparts))
        => (dout.ok /\ dout.val = Canonical(dparts, "-"))

\* C7, amended: for every date text "<weekday>, <day> <MonthName> <year>" that
\* ends with the year and names a calendar day, convert_date of etl_airflow.py
\* returns YYYY-MM-DD of that day, and convert_date of main.py YYYY/MM/DD.
C7_DateThatEndsTheText ==
    (dout.done /\ NamesADay(dparts) /\ dparts.trail = NoTrail)
        => (dout.ok /\ dout.val = Canonical(dparts, IF variant = "dag" THEN "-" ELSE "/"))

\* "Wed, 14 Feb 2023" has become "2023-02-14".
C7_Witness ==
    /\ dout.done /\ variant = "dag" /\ MkDate(dparts) = Wed14Feb
    /\ dout.val = <<"2","0","2","3","-","0","2","-","1","4">>

\* C8: whatever the order of the header and its extra columns, each field of a
\* CleanRecord holds the value derived from the raw field of the stated name,
\* and the fields are ordered date, wakeup_time, hours_slept,
\* quality_sleep_time, deep_sleep_time, sleep_efficiency,
\* oxygen_saturation_average.
C8_FieldsByName ==
    (xout.done /\ xout.df.ok) =>
        LET sv == Survivors(xraw) IN
        /\ xout.df.columns = <<"date", "wakeup_time", "hours_slept", "quality_sleep_time",
                               "deep_sleep_time", "sleep_efficiency", "oxygen_saturation_average">>
        /\ Len(xout.df.rows) = Len(sv)
        /\ \A i \in 1..Len(xout.df.rows) :
               /\ Field(xout.df, i, "date") = convert_date_cell(ReadCell(sv[i].toDate)).val
               /\ Field(xout.df, i, "wakeup_time") = <<"0","7",":","1","5",":","0","0">>
               /\ Field(xout.df, i, "hours_slept") = ReadCell(sv[i].asleep)
               /\ Field(xout.df, i, "sleep_efficiency") = ReadCell(sv[i].efficiency)
               /\ Field(xout.df, i, "quality_sleep_time") = ReadCell(sv[i].quality)
               /\ Field(xout.df, i, "deep_sleep_time") = ReadCell(sv[i].deep)
               /\ Field(xout.df, i, "oxygen_saturation_average") = ReadCell(sv[i].SpO2Avg)

\* The order of the stages the claim states.
StatedOrder == <<"s3_sensor", "download_data_from_s3", "extract_and_transform",
                 "load_to_sqlite", "remove_temp_files">>

OrderKept ==
    \A i \in 2..Len(StatedOrder) :
        st[StatedOrder[i]] # "none" => st[StatedOrder[i - 1]] = "success"

Cleaned ==
    st["remove_temp_files"] = "success" => (~data_csv.exists /\ ~transformed_csv.exists)

AppendsOnlyAfterTransform ==
    (\E id \in DOMAIN db' : Len(TableOf(db', id)) > Len(TableOf(db, id)))
        => /\ st["extract_and_transform"] = "success"
           /\ xform_log.ok
           /\ transformed_csv.exists

RemovesOnlyAfterLoad ==
    ((data_csv.exists /\ ~data_csv'.exists) \/ (transformed_csv.exists /\ ~transformed_csv'.exists))
        => st["load_to_sqlite"] = "success"

\* C9: in every run a stage starts only after its predecessor in the order
\* s3_sensor, download_data_from_s3, extract_and_transform, load_to_sqlite,
\* remove_temp_files has succeeded in that run; rows are appended only after the
\* run's transformation succeeded and wrote transformed_data.csv; the two files
\* are removed only after the run's load succeeded, and then neither exists.
C9_StagesInOrder ==
    /\ [](OrderKept /\ Cleaned)
    /\ [][AppendsOnlyAfterTransform /\ RemovesOnlyAfterLoad]_vars

\* A run went through all five stages and appended rows.
C9_Witness ==
    /\ st["remove_temp_files"] = "success"
    /\ load_log.ok /\ load_log.rows > 0
    /\ ~data_csv.exists /\ ~transformed_csv.exists

\* The calendar month before the month of t, with its year.
PrecedingMonth(t) == IF t.month = 1 THEN <<t.year - 1, 12>> ELSE <<t.year, t.month - 1>>

\* C10: the load appends to table autosleep_<m> of database etl_autosleep_<y>
\* where (y, m) is the calendar month before the run date, m in 1..12.
C10_TableOfPrecedingMonth ==
    load_log.done =>
        /\ load_log.target = PrecedingMonth(load_log.at)
        /\ load_log.target[2] \in 1..12

====
